---- MODULE Spec2Model ----
(***************************************************************************)
(* ContextRecorder (src/inframe/recorder.py): the session registry that    *)
(* creates, starts, stops and shuts down recording sessions.               *)
(*                                                                         *)
(* Every coroutine of the class is a task.  A task runs without            *)
(* interruption from one await to the next, so each action below is the    *)
(* return of the awaited collaborator call together with all the code the  *)
(* coroutine runs up to its next await (or its return).  The collaborators *)
(* (VideoStream, TranscriptionPipeline, the context integrator) are        *)
(* external: whether a call of theirs succeeds is a nondeterministic       *)
(* input of the action.                                                    *)
(***************************************************************************)
EXTENDS Integers, Sequences, FiniteSets, TLC

\* Bounds of the model.
MaxRecorders == 2      \* records add_recorder may create
MaxCount == 3          \* start() is not called once active_recorders reaches this
MaxTasks == 2          \* coroutines that may be in flight at once
MaxPushes == 2         \* update notifications the integrator issues
MaxHandlers == 2       \* _on_context_update coroutines that may be in flight at once
MaxTicks == 3          \* ticks a query's loop may fire

RecorderIds == 1..MaxRecorders
\* Ids a caller may pass: 0 is an id that is never registered ("unknown-id"),
\* an id above the number of records is one that is not registered yet.
CallIds == 0..MaxRecorders
Tasks == 1..MaxTasks

VARIABLES
    recorders,               \* self.recorders: id -> RecorderConfig (is_recording)
    is_recording,            \* self.is_recording
    active_recorders,        \* self.active_recorders
    video_stream,            \* id -> whether config.video_stream is started
    transcription_pipeline,  \* id -> whether config.transcription_pipeline is started
    integrator_started,      \* whether self.context_integrator has been started
    task,                    \* the coroutines: position, arguments, result
    today,                   \* the calendar day datetime.now() falls on
    cache_file,              \* self.cache_file: the path the cache is written to
    files,                   \* the file system: path -> text, or Missing
    integrator_context,      \* what the integrator's get_current_context holds
    handler,                 \* the _on_context_update coroutines
    handled,                 \* the notifications whose handler wrote the cache
    tool,                    \* the last answer of a tool of the MCP server
    query,                   \* the agent's ContextQuery: query id -> definition and loop
    agent                    \* SimpleAgent: where main() and graceful_shutdown() are

registryVars == <<recorders, is_recording, active_recorders, video_stream,
                  transcription_pipeline, integrator_started, task>>

cacheVars == <<files, integrator_context, handler, handled, tool>>

vars == <<recorders, is_recording, active_recorders, video_stream,
          transcription_pipeline, integrator_started, task,
          today, cache_file, files, integrator_context, handler, handled, tool,
          query, agent>>

\* What a caller can observe of the registry and of the stages.
Observable ==
    [recs |-> recorders, count |-> active_recorders, flag |-> is_recording,
     video |-> video_stream, pipeline |-> transcription_pipeline,
     integrator |-> integrator_started]

\* RecorderConfig as it would be if a new record were born recording.
RecorderConfig_Recording == [is_recording |-> TRUE]

\* RecorderConfig as add_recorder builds it: is_recording defaults to False.
RecorderConfig == [is_recording |-> FALSE]

\* recorder_id in self.recorders
Known(id) == id \in DOMAIN recorders

\* The number of records whose is_recording is set.
ActiveRecords == {id \in DOMAIN recorders : recorders[id].is_recording}

\* A task that has not been used yet.
IdleTask ==
    [op |-> "none", id |-> 0, pc |-> "idle", ret |-> "none", started |-> {},
     issued |-> <<>>, keys |-> <<>>, failed |-> {}, repeat |-> FALSE, payload |-> FALSE,
     before |-> [recs |-> <<>>, count |-> 0, flag |-> FALSE, video |-> <<>>,
                 pipeline |-> <<>>, integrator |-> FALSE]]

\* A task is free when no coroutine is suspended in it.
Free(t) == task[t].pc \in {"idle", "done"}

\* The record of a call that begins now on task t.
NewCall(t, op, id) ==
    [IdleTask EXCEPT !.op = op, !.id = id, !.before = Observable,
        !.repeat = (op = "stop" /\ task[t].pc = "done" /\ task[t].op = "stop"
                    /\ task[t].id = id /\ task[t].ret = "none")]

(***************************************************************************)
(* The cache file: its path, its text                                      *)
(***************************************************************************)

\* The days a run may fall on.
Days == {[y |-> 2026, m |-> 11, d |-> 2], [y |-> 2025, m |-> 12, d |-> 31]}

\* strftime's zero-padded fields, as sequences of decimal digits.
TwoDigits(n) == <<n \div 10, n % 10>>
FourDigits(n) == <<n \div 1000, (n \div 100) % 10, (n \div 10) % 10, n % 10>>

\* A path is the cache root ~/.cache/inframe followed by a file name, a
\* sequence of digits; the empty name is the root itself, ContextRecorder's
\* default cache_file.
LibraryPath == <<>>

\* strftime('%Y%m%d'): the default of the recorder CLI's --cache-file.
FormatYmd(day) == FourDigits(day.y) \o TwoDigits(day.m) \o TwoDigits(day.d)

\* strftime('%d%m%Y'): the file name the MCP servers read.
FormatDmY(day) == TwoDigits(day.d) \o TwoDigits(day.m) \o FourDigits(day.y)

\* The MCP servers' cache_file.
ServerPath == FormatDmY(today)

\* The paths a run can name.
AllPaths == {LibraryPath} \cup {FormatYmd(day) : day \in Days}
                          \cup {FormatDmY(day) : day \in Days}

\* The values get_current_context may hold: a str, the empty str, a dict or
\* another object; ver tells the successive contexts apart.
ContextKinds == {"str", "empty_str", "dict", "other"}
NoContext == [kind |-> "none", ver |-> 0]

\* The text of a file: what was written, or nothing.  A path with no file
\* maps to Missing.
EmptyText == [enc |-> "empty", ver |-> 0]
Missing == [enc |-> "missing", ver |-> 0]

\* What the tools answer when there is no cache file.
Sentinel == [enc |-> "sentinel", ver |-> 0]

\* Lines 56-62: the text _on_context_update writes for a context: a str as it
\* is, a dict through json.dumps, anything else through str().
Serialize(ctx) ==
    CASE ctx.kind = "str" -> [enc |-> "text", ver |-> ctx.ver]
      [] ctx.kind = "empty_str" -> EmptyText
      [] ctx.kind = "dict" -> [enc |-> "json", ver |-> ctx.ver]
      [] OTHER -> [enc |-> "str", ver |-> ctx.ver]

Handlers == 1..MaxHandlers

\* An _on_context_update coroutine that has not been called.
IdleHandler ==
    [pc |-> "idle", ret |-> "none", caught |-> FALSE, seen |-> {}, text |-> Missing]

(***************************************************************************)
(* SimpleAgent (src/examples/simple_agent.py) and its ContextQuery          *)
(***************************************************************************)

\* The two queries the agent registers.
QueryIds == {"ide_query_id", "directory_query_id"}

\* A query that add_query has not registered: no loop, no tick fired.  loop is
\* where the query's evaluation loop is: "none" (no loop), "waiting" (the next
\* tick is scheduled), "query" (the prompt is being evaluated) or "callback"
\* (the callback runs); at is the call of the callback that is awaited.
IdleQuery ==
    [defined |-> FALSE, active |-> FALSE, loop |-> "none", fired |-> 0,
     starts |-> 0, at |-> 0]

\* SimpleAgent.__init__: main() has not begun, _cleanup_done is False.
IdleAgent ==
    [main |-> "post_init", cleanup |-> "none", by |-> "none",
     cleanup_done |-> FALSE, chained |-> FALSE, fired_at_chain |-> 0]

\* ContextRecorder.__init__: cache_file is the library default, the default of
\* the recorder CLI, or a --cache-file naming the file the MCP servers read.
Init ==
    /\ recorders = <<>>
    /\ is_recording = FALSE
    /\ active_recorders = 0
    /\ video_stream = <<>>
    /\ transcription_pipeline = <<>>
    /\ integrator_started = FALSE
    /\ task = [t \in Tasks |-> IdleTask]
    /\ today \in Days
    /\ cache_file \in {LibraryPath, FormatYmd(today), FormatDmY(today)}
    /\ files = [p \in AllPaths |-> Missing]
    /\ integrator_context = NoContext
    /\ handler = [h \in Handlers |-> IdleHandler]
    /\ handled = 0
    /\ tool = [op |-> "none", saw |-> Missing, result |-> Sentinel]
    /\ query = [q \in QueryIds |-> IdleQuery]
    /\ agent = IdleAgent

\* uuid.uuid4(): an id no record has.
FreshId == Cardinality(DOMAIN recorders) + 1

\* add_recorder: allocates the two pipeline handles, stores the config, starts nothing.
AddRecorder(t) ==
    /\ Free(t)
    /\ FreshId <= MaxRecorders
    /\ recorders' = [id \in DOMAIN recorders \cup {FreshId} |->
                        IF id = FreshId THEN RecorderConfig ELSE recorders[id]]
    /\ video_stream' = [id \in DOMAIN recorders \cup {FreshId} |->
                        IF id = FreshId THEN FALSE ELSE video_stream[id]]
    /\ transcription_pipeline' = [id \in DOMAIN recorders \cup {FreshId} |->
                        IF id = FreshId THEN FALSE ELSE transcription_pipeline[id]]
    /\ task' = [task EXCEPT ![t] =
                    [NewCall(t, "add_recorder", FreshId) EXCEPT !.pc = "done", !.ret = "id"]]
    /\ UNCHANGED <<is_recording, active_recorders, integrator_started>>

(***************************************************************************)
(* start(recorder_id)                                                      *)
(***************************************************************************)

\* The task returns from its coroutine with this result.
Return(t, ret) == [task EXCEPT ![t].pc = "done", ![t].ret = ret]

\* StartNotFound as it would be if the registry created a record on a lookup
\* of a missing key (a defaulting mapping).
StartNotFound_CreatesRecord(t, id) ==
    /\ recorders' = [i \in DOMAIN recorders \cup {id} |->
                        IF i = id THEN RecorderConfig ELSE recorders[i]]
    /\ video_stream' = [i \in DOMAIN recorders \cup {id} |->
                        IF i = id THEN FALSE ELSE video_stream[i]]
    /\ transcription_pipeline' = [i \in DOMAIN recorders \cup {id} |->
                        IF i = id THEN FALSE ELSE transcription_pipeline[i]]
    /\ task' = [task EXCEPT ![t] =
                    [NewCall(t, "start", id) EXCEPT !.pc = "done", !.ret = "false"]]
    /\ UNCHANGED <<is_recording, active_recorders, integrator_started>>

\* Lines 106-108: an unknown id is reported and start returns False.
StartNotFound(t, id) ==
    /\ task' = [task EXCEPT ![t] =
                    [NewCall(t, "start", id) EXCEPT !.pc = "done", !.ret = "false"]]
    /\ UNCHANGED <<recorders, is_recording, active_recorders, video_stream,
                   transcription_pipeline, integrator_started>>

\* Lines 103-121: the call, up to the await of video_stream.start_stream.
CallStart(t, id) ==
    /\ Free(t)
    /\ active_recorders < MaxCount
    /\ IF ~Known(id)
       THEN StartNotFound(t, id)
       ELSE /\ task' = [task EXCEPT ![t] =
                           [NewCall(t, "start", id) EXCEPT
                               !.pc = "start_stream", !.issued = <<"start_stream">>]]
            /\ UNCHANGED <<recorders, is_recording, active_recorders, video_stream,
                           transcription_pipeline, integrator_started>>

\* What a collaborator's start call may do: succeed, report failure or raise.
StreamOutcomes == {"ok", "false", "raise"}
CallOutcomes == {"ok", "raise"}

\* StreamStartFailed as it would be if the value start_stream returns were not
\* tested.
StreamStartFailed_IgnoresResult(outcome) == outcome = "raise"

\* Lines 121-124 and 139-141: start goes on only if start_stream returned a
\* true value; a false value or an exception makes it return False.
StreamStartFailed(outcome) == outcome # "ok"

\* Lines 121-127: start_stream returns; on success the pipeline start is awaited.
StartStreamReturns(t, outcome) ==
    /\ task[t].pc = "start_stream"
    /\ video_stream' = IF outcome = "ok"
                       THEN [video_stream EXCEPT ![task[t].id] = TRUE]
                       ELSE video_stream
    /\ task' = IF StreamStartFailed(outcome)
               THEN Return(t, "false")
               ELSE [task EXCEPT ![t].pc = "start_pipeline",
                                 ![t].issued = Append(@, "start_pipeline"),
                                 ![t].started = IF outcome = "ok"
                                                THEN @ \cup {"capture"} ELSE @]
    /\ UNCHANGED <<recorders, is_recording, active_recorders,
                   transcription_pipeline, integrator_started>>

\* StartPipelineReturns as it would be if the record were marked recording as
\* soon as the pipeline has started, before the integrator start is awaited.
StartPipelineReturns_MarksRecording(t, outcome) ==
    /\ task[t].pc = "start_pipeline"
    /\ transcription_pipeline' = IF outcome = "ok"
                                 THEN [transcription_pipeline EXCEPT ![task[t].id] = TRUE]
                                 ELSE transcription_pipeline
    /\ recorders' = IF outcome = "ok"
                    THEN [recorders EXCEPT ![task[t].id].is_recording = TRUE]
                    ELSE recorders
    /\ task' = IF outcome = "ok"
               THEN [task EXCEPT ![t].pc = "start_integrator",
                                 ![t].issued = Append(@, "start_integrator"),
                                 ![t].started = @ \cup {"analysis"}]
               ELSE Return(t, "false")
    /\ UNCHANGED <<is_recording, active_recorders, video_stream, integrator_started>>

\* Lines 127-130 and 139-141: start_pipeline returns; an exception makes start
\* return False (the video stream is left as it is).
StartPipelineReturns(t, outcome) ==
    /\ task[t].pc = "start_pipeline"
    /\ transcription_pipeline' = IF outcome = "ok"
                                 THEN [transcription_pipeline EXCEPT ![task[t].id] = TRUE]
                                 ELSE transcription_pipeline
    /\ task' = IF outcome = "ok"
               THEN [task EXCEPT ![t].pc = "start_integrator",
                                 ![t].issued = Append(@, "start_integrator"),
                                 ![t].started = @ \cup {"analysis"}]
               ELSE Return(t, "false")
    /\ UNCHANGED <<recorders, is_recording, active_recorders, video_stream,
                   integrator_started>>

\* StartCount as it would be if the count were assigned, not incremented.
StartCount_SetsOne(count) == 1

\* Line 134: self.active_recorders += 1
StartCount(count) == count + 1

\* Lines 130-141: start_integrator returns; on success the record and the registry
\* are marked recording and start returns True.
StartIntegratorReturns(t, outcome) ==
    /\ task[t].pc = "start_integrator"
    /\ IF outcome = "ok"
       THEN /\ integrator_started' = TRUE
            /\ recorders' = [recorders EXCEPT ![task[t].id].is_recording = TRUE]
            /\ is_recording' = TRUE
            /\ active_recorders' = StartCount(active_recorders)
            /\ task' = [task EXCEPT ![t].pc = "done", ![t].ret = "true",
                                    ![t].started = @ \cup {"integrator"}]
       ELSE /\ task' = Return(t, "false")
            /\ UNCHANGED <<recorders, is_recording, active_recorders, integrator_started>>
    /\ UNCHANGED <<video_stream, transcription_pipeline>>

(***************************************************************************)
(* stop(recorder_id) and shutdown()                                        *)
(***************************************************************************)

\* StopOrder as it would be if stop took the stages in start's order.
StopOrder_StreamFirst == <<"stop_stream", "stop_pipeline">>

\* Lines 157-158: the stage stops, in the order stop awaits them.
StopOrder == <<"stop_pipeline", "stop_stream">>

\* Lines 172-173: the keys shutdown still has to visit, without the leading ones
\* whose record is not recording (those are skipped without an await).
RECURSIVE SkipNotRecording(_, _)
SkipNotRecording(keys, recs) ==
    IF keys = <<>> THEN <<>>
    ELSE IF recs[Head(keys)].is_recording THEN keys
    ELSE SkipNotRecording(Tail(keys), recs)

\* Line 172: list(self.recorders.keys()), in insertion order.
RecorderKeys == [i \in 1..Cardinality(DOMAIN recorders) |-> i]

\* ShutdownCount as it would be if shutdown relied on the stops to bring the
\* count down.
ShutdownCount_KeepsCount(count) == count

\* Line 180: self.active_recorders = 0
ShutdownCount(count) == 0

\* Lines 172-180: shutdown's loop from the key it is at: it awaits the stop of
\* the next recording record, or, with no key left, resets the flag and the count
\* and returns.  rec is the task's record, recs, count and flag the registry as
\* the code before left it.
ShutdownLoop(t, rec, keys, recs, count, flag) ==
    LET rest == SkipNotRecording(keys, recs) IN
    /\ recorders' = recs
    /\ IF rest = <<>>
       THEN /\ is_recording' = FALSE
            /\ active_recorders' = ShutdownCount(count)
            /\ task' = [task EXCEPT ![t] =
                           [rec EXCEPT !.pc = "done", !.ret = "none", !.keys = <<>>]]
       ELSE /\ is_recording' = flag
            /\ active_recorders' = count
            /\ task' = [task EXCEPT ![t] =
                           [rec EXCEPT !.pc = StopOrder[1], !.id = Head(rest),
                                       !.issued = <<StopOrder[1]>>,
                                       !.keys = Tail(rest)]]

\* stop has run to its end on task t, normally or by swallowing an exception
\* (lines 164-167): a stop the caller awaited returns None, a stop that shutdown
\* awaited returns into shutdown's loop (lines 175-177).
StopEnds(t, rec, recs, count, flag) ==
    IF rec.op = "shutdown"
    THEN ShutdownLoop(t, rec, rec.keys, recs, count, flag)
    ELSE /\ recorders' = recs
         /\ active_recorders' = count
         /\ is_recording' = flag
         /\ task' = [task EXCEPT ![t] = [rec EXCEPT !.pc = "done", !.ret = "none"]]

\* StopFails as it would be if the exception of a stage stop left shutdown's
\* loop (the remaining keys are not visited).
StopFails_LeavesLoop(t) ==
    LET rec == [task[t] EXCEPT !.failed = @ \cup {task[t].id}] IN
    IF rec.op = "shutdown"
    THEN ShutdownLoop(t, rec, <<>>, recorders, active_recorders, is_recording)
    ELSE StopEnds(t, rec, recorders, active_recorders, is_recording)

\* StopFails as it would be if stop had no except clause: the exception of the
\* stage stop leaves stop (shutdown's own except clause still catches it).
StopFails_Propagates(t) ==
    LET rec == [task[t] EXCEPT !.failed = @ \cup {task[t].id}] IN
    IF rec.op = "shutdown"
    THEN StopEnds(t, rec, recorders, active_recorders, is_recording)
    ELSE /\ task' = [task EXCEPT ![t] = [rec EXCEPT !.pc = "done", !.ret = "raise"]]
         /\ UNCHANGED <<recorders, active_recorders, is_recording>>

\* StopFails as it would be if the except clause of stop did the bookkeeping of
\* a stop that succeeded.
StopFails_MarksStopped(t) ==
    StopEnds(t, [task[t] EXCEPT !.failed = @ \cup {task[t].id}],
             [recorders EXCEPT ![task[t].id].is_recording = FALSE],
             active_recorders - 1, is_recording)

\* Lines 166-167 and 174-177: a stage stop raised; stop prints the exception and
\* ends with the record, the count and the flag as they were.
StopFails(t) ==
    StopEnds(t, [task[t] EXCEPT !.failed = @ \cup {task[t].id}],
             recorders, active_recorders, is_recording)

\* Line 145: self.recorders[recorder_id] of an id that is not a key raises
\* KeyError, outside the try block: the exception leaves stop.
StopNotFound(t, id) ==
    /\ task' = [task EXCEPT ![t] =
                    [NewCall(t, "stop", id) EXCEPT !.pc = "done", !.ret = "raise"]]
    /\ UNCHANGED <<recorders, is_recording, active_recorders>>

\* Lines 143-157: the call, up to the await of transcription_pipeline.stop_pipeline.
CallStop(t, id) ==
    /\ Free(t)
    /\ IF ~Known(id)
       THEN StopNotFound(t, id)
       ELSE /\ task' = [task EXCEPT ![t] =
                           [NewCall(t, "stop", id) EXCEPT
                               !.pc = IF recorders[id].is_recording
                                      THEN StopOrder[1] ELSE "done",
                               !.issued = IF recorders[id].is_recording
                                          THEN <<StopOrder[1]>> ELSE <<>>]]
            /\ UNCHANGED <<recorders, is_recording, active_recorders>>
    /\ UNCHANGED <<video_stream, transcription_pipeline, integrator_started>>

\* Lines 157-158 and 166-167: stop_pipeline returns; an exception is printed and
\* ends stop with the record, the count and the flag as they were.
StopPipelineReturns(t, outcome) ==
    /\ task[t].pc = "stop_pipeline"
    /\ IF outcome = "ok"
       THEN /\ transcription_pipeline' = [transcription_pipeline EXCEPT ![task[t].id] = FALSE]
            /\ task' = [task EXCEPT ![t].pc = StopOrder[2],
                                    ![t].issued = Append(@, StopOrder[2])]
            /\ UNCHANGED <<recorders, is_recording, active_recorders>>
       ELSE /\ UNCHANGED transcription_pipeline
            /\ StopFails(t)
    /\ UNCHANGED <<video_stream, integrator_started>>

\* Line 161: self.active_recorders -= 1
StopCount(count) == count - 1

\* Lines 162-163: the flag is cleared when the count has reached zero.
StopFlag(count, flag) == IF count = 0 THEN FALSE ELSE flag

\* Lines 158-167: stop_stream returns; on success the record is marked not
\* recording and the count and the flag are updated.
StopStreamReturns(t, outcome) ==
    /\ task[t].pc = "stop_stream"
    /\ IF outcome = "ok"
       THEN /\ video_stream' = [video_stream EXCEPT ![task[t].id] = FALSE]
            /\ StopEnds(t, task[t],
                        [recorders EXCEPT ![task[t].id].is_recording = FALSE],
                        StopCount(active_recorders),
                        StopFlag(StopCount(active_recorders), is_recording))
       ELSE /\ UNCHANGED video_stream
            /\ StopFails(t)
    /\ UNCHANGED <<transcription_pipeline, integrator_started>>

\* Lines 169-175: the call of shutdown, up to its first await (or its return).
CallShutdown(t) ==
    /\ Free(t)
    /\ ShutdownLoop(t, NewCall(t, "shutdown", 0), RecorderKeys,
                    recorders, active_recorders, is_recording)
    /\ UNCHANGED <<video_stream, transcription_pipeline, integrator_started>>

(***************************************************************************)
(* get_status(recorder_id)                                                 *)
(***************************************************************************)

\* Lines 185-197: the 'is_recording' entry of the payload get_status returns
\* without asking any collaborator is False; otherwise the collaborators are asked.
StatusNotRecording(id) == ~Known(id) \/ ~recorders[id].is_recording

\* Lines 182-206: the call, up to the await of get_buffer_status.
CallStatus(t, id) ==
    /\ Free(t)
    /\ task' = [task EXCEPT ![t] =
                   IF StatusNotRecording(id)
                   THEN [NewCall(t, "get_status", id) EXCEPT
                            !.pc = "done", !.payload = FALSE,
                            !.ret = IF Known(id) THEN "not_recording" ELSE "not_found"]
                   ELSE [NewCall(t, "get_status", id) EXCEPT !.pc = "get_buffer_status"]]
    /\ UNCHANGED <<recorders, is_recording, active_recorders, video_stream,
                   transcription_pipeline, integrator_started>>

\* The collaborator reads of get_status, in the order it awaits them.
StatusAfter(pc) ==
    CASE pc = "get_buffer_status" -> "get_pipeline_status"
      [] pc = "get_pipeline_status" -> "get_context_status"
      [] pc = "get_context_status" -> "done"

\* StatusErrorPayload as it would be if the error payload repeated the
\* 'is_recording': True of the payload above it.
StatusErrorPayload_True(flag) == TRUE

\* Line 222: the error payload's 'is_recording' is self.is_recording.
StatusErrorPayload(flag) == flag

\* Lines 206-224: a status read returns; after the third the merged payload is
\* returned with 'is_recording' True, an exception returns the error payload
\* with the registry's flag.
StatusReadReturns(t, outcome) ==
    /\ task[t].pc \in {"get_buffer_status", "get_pipeline_status", "get_context_status"}
    /\ task' = IF outcome = "ok"
               THEN [task EXCEPT ![t].pc = StatusAfter(task[t].pc),
                                 ![t].ret = IF StatusAfter(task[t].pc) = "done"
                                            THEN "status" ELSE @,
                                 ![t].payload = StatusAfter(task[t].pc) = "done"]
               ELSE [task EXCEPT ![t].pc = "done", ![t].ret = "error",
                                 ![t].payload = StatusErrorPayload(is_recording)]
    /\ UNCHANGED <<recorders, is_recording, active_recorders, video_stream,
                   transcription_pipeline, integrator_started>>

(***************************************************************************)
(* _on_context_update(context_update): the cache sink                      *)
(***************************************************************************)

\* The slot of the next _on_context_update coroutine.
FreeHandlers == {h \in Handlers : handler[h].pc \in {"idle", "done"}}

\* write_text is a synchronous call: while it runs no other coroutine of the
\* recorder's process does.
InWrite == \E h \in Handlers : handler[h].pc = "write_text"

\* The integrator has a new context and calls the callback __init__ registered
\* (line 47); lines 49-53: the handler runs to its await of get_current_context.
IntegratorPush(kind) ==
    /\ integrator_started
    /\ ~InWrite
    /\ integrator_context.ver < MaxPushes
    /\ FreeHandlers # {}
    /\ LET ctx == [kind |-> kind, ver |-> integrator_context.ver + 1]
           new == CHOOSE h \in FreeHandlers : \A g \in FreeHandlers : h <= g
       IN /\ integrator_context' = ctx
          /\ handler' = [h \in Handlers |->
                IF h = new
                THEN [IdleHandler EXCEPT !.pc = "get_current_context", !.seen = {ctx}]
                ELSE IF handler[h].pc = "get_current_context"
                THEN [handler[h] EXCEPT !.seen = @ \cup {ctx}]
                ELSE handler[h]]
    /\ UNCHANGED <<files, handled, tool>>

\* Line 53: what the awaited get_current_context may return to handler h: the
\* context the integrator held at some instant between the call and its return.
CurrentContextValues(h) == handler[h].seen

\* HandlerFails as it would be without the try block: the exception goes back
\* to the integrator that called the handler.
HandlerFails_Propagates(h) ==
    [handler EXCEPT ![h] = [IdleHandler EXCEPT !.pc = "done", !.ret = "raise",
                                               !.caught = TRUE]]

\* Lines 67-70: an exception in the handler is printed and the handler returns.
HandlerFails(h) ==
    [handler EXCEPT ![h] = [IdleHandler EXCEPT !.pc = "done", !.caught = TRUE]]

\* What may happen between the return of get_current_context and the write.
ReadOutcomes == {"ok", "read_raises", "dumps_raises", "open_raises"}

\* Lines 53-65: get_current_context returns value (or raises); the handler
\* serializes it and write_text opens the cache file, which truncates it.
HandlerReadReturns(h, outcome, value) ==
    /\ handler[h].pc = "get_current_context"
    /\ ~InWrite
    /\ value \in CurrentContextValues(h)
    /\ outcome = "dumps_raises" => value.kind = "dict"
    /\ IF outcome = "ok"
       THEN /\ files' = [files EXCEPT ![cache_file] = EmptyText]
            /\ handler' = [handler EXCEPT ![h].pc = "write_text",
                                          ![h].text = Serialize(value),
                                          ![h].seen = {}]
       ELSE /\ handler' = HandlerFails(h)
            /\ UNCHANGED files
    /\ UNCHANGED <<integrator_context, handled, tool>>

\* Line 65: write_text writes the text and closes the file, or fails after the
\* file was truncated.
HandlerWriteReturns(h, outcome) ==
    /\ handler[h].pc = "write_text"
    /\ IF outcome = "ok"
       THEN /\ files' = [files EXCEPT ![cache_file] = handler[h].text]
            /\ handler' = [handler EXCEPT ![h] = [IdleHandler EXCEPT !.pc = "done"]]
            /\ handled' = handled + 1
       ELSE /\ handler' = HandlerFails(h)
            /\ UNCHANGED <<files, handled>>
    /\ UNCHANGED <<integrator_context, tool>>

(***************************************************************************)
(* The tools of the MCP servers (another process)                          *)
(***************************************************************************)

\* cache_file.exists() and cache_file.read_text() of the servers' tools: the
\* text of the file when there is one, the sentinel otherwise.
ReadCache(path) == IF files[path] # Missing THEN files[path] ELSE Sentinel

\* The tools that return the cache: get_latest_screen_context (both servers)
\* and the resource get_screen_context (the network server).
ReadTools == {"get_latest_screen_context", "get_screen_context"}

ToolRead(op) ==
    /\ tool' = [op |-> op, saw |-> files[ServerPath], result |-> ReadCache(ServerPath)]
    /\ UNCHANGED <<files, integrator_context, handler, handled>>

(***************************************************************************)
(* The registry driven by one caller that awaits each call before the next.*)
(***************************************************************************)

\* No coroutine is suspended: the caller may issue its next call.
Quiescent == \A t \in Tasks : Free(t)

\* The cache sink's state.
SinkUnchanged == UNCHANGED <<today, cache_file, files, integrator_context,
                             handler, handled, tool>>

\* The agent of the example and its queries.
AgentUnchanged == UNCHANGED <<query, agent>>

\* What the registry's methods leave alone.
CacheUnchanged == SinkUnchanged /\ AgentUnchanged

\* What the cache sink and the tools leave alone.
RegistryUnchanged == UNCHANGED <<today, cache_file, recorders, is_recording,
                                 active_recorders, video_stream,
                                 transcription_pipeline, integrator_started, task,
                                 query, agent>>

Next ==
    \/ Quiescent /\ AddRecorder(1) /\ CacheUnchanged
    \/ \E id \in CallIds : Quiescent /\ CallStart(1, id) /\ CacheUnchanged
    \/ \E id \in CallIds : Quiescent /\ CallStop(1, id) /\ CacheUnchanged
    \/ Quiescent /\ CallShutdown(1) /\ CacheUnchanged
    \/ \E id \in CallIds : Quiescent /\ CallStatus(1, id) /\ CacheUnchanged
    \/ \E t \in Tasks, o \in StreamOutcomes : StartStreamReturns(t, o) /\ CacheUnchanged
    \/ \E t \in Tasks, o \in CallOutcomes : StartPipelineReturns(t, o) /\ CacheUnchanged
    \/ \E t \in Tasks, o \in CallOutcomes : StartIntegratorReturns(t, o) /\ CacheUnchanged
    \/ \E t \in Tasks, o \in CallOutcomes : StopPipelineReturns(t, o) /\ CacheUnchanged
    \/ \E t \in Tasks, o \in CallOutcomes : StopStreamReturns(t, o) /\ CacheUnchanged
    \/ \E t \in Tasks, o \in CallOutcomes : StatusReadReturns(t, o) /\ CacheUnchanged

Spec == Init /\ [][Next]_vars

(***************************************************************************)
(* The cache sink at work: one session is started and stopped by a caller  *)
(* that awaits each call, the integrator pushes updates, the handlers run  *)
(* as the scheduler resumes them.                                          *)
(***************************************************************************)

NextCache ==
    \/ Quiescent /\ ~InWrite /\ DOMAIN recorders = {} /\ AddRecorder(1) /\ CacheUnchanged
    \/ \E id \in RecorderIds :
          Quiescent /\ ~InWrite /\ Known(id) /\ CallStart(1, id) /\ CacheUnchanged
    \/ \E id \in RecorderIds :
          Quiescent /\ ~InWrite /\ Known(id) /\ CallStop(1, id) /\ CacheUnchanged
    \/ \E t \in Tasks : ~InWrite /\ StartStreamReturns(t, "ok") /\ CacheUnchanged
    \/ \E t \in Tasks : ~InWrite /\ StartPipelineReturns(t, "ok") /\ CacheUnchanged
    \/ \E t \in Tasks : ~InWrite /\ StartIntegratorReturns(t, "ok") /\ CacheUnchanged
    \/ \E t \in Tasks : ~InWrite /\ StopPipelineReturns(t, "ok") /\ CacheUnchanged
    \/ \E t \in Tasks : ~InWrite /\ StopStreamReturns(t, "ok") /\ CacheUnchanged
    \/ \E kind \in ContextKinds : IntegratorPush(kind) /\ RegistryUnchanged
    \/ \E h \in Handlers, o \in ReadOutcomes : \E v \in CurrentContextValues(h) :
          HandlerReadReturns(h, o, v) /\ RegistryUnchanged
    \/ \E h \in Handlers, o \in CallOutcomes :
          HandlerWriteReturns(h, o) /\ RegistryUnchanged

\* The recorder is run with the --cache-file that names the file the MCP
\* servers read (local_context_recorder.py line 67, context_mcp_server.py
\* lines 15-16).
InitCache == Init /\ cache_file = ServerPath

SpecCache == InitCache /\ [][NextCache]_vars

\* The same, with the tools of the MCP servers reading the file from their
\* own process at any moment.
NextTools ==
    \/ NextCache
    \/ \E op \in ReadTools : ToolRead(op) /\ RegistryUnchanged

SpecTools == InitCache /\ [][NextTools]_vars

\* The recorder CLI run with its default --cache-file, the file named after
\* the day in strftime('%Y%m%d') (local_context_recorder.py line 67), beside
\* the MCP servers run on the same day.
InitDay == Init /\ cache_file = FormatYmd(today)

SpecDay == InitDay /\ [][NextTools]_vars

(***************************************************************************)
(* The registry driven by callers that do not wait for one another: a call *)
(* begins while others are suspended in an await.  The callers keep to the *)
(* contract: no start or stop of an id while a start or stop of the same   *)
(* id is in flight; they start sessions that are not recording, and the    *)
(* sessions are created before the first call is left in flight.           *)
(***************************************************************************)

\* A start or a stop of id is suspended in an await.
InFlight(id) ==
    \E t \in Tasks : ~Free(t) /\ task[t].op \in {"start", "stop"} /\ task[t].id = id

\* The task a new call runs as: the first that is free.
NextTask(t) == Free(t) /\ \A u \in Tasks : Free(u) => t <= u

NextConc ==
    \/ \E t \in Tasks : Quiescent /\ NextTask(t) /\ AddRecorder(t) /\ CacheUnchanged
    \/ \E t \in Tasks, id \in RecorderIds :
          /\ NextTask(t) /\ Known(id) /\ ~InFlight(id) /\ ~recorders[id].is_recording
          /\ CallStart(t, id) /\ CacheUnchanged
    \/ \E t \in Tasks, id \in RecorderIds :
          NextTask(t) /\ Known(id) /\ ~InFlight(id) /\ CallStop(t, id) /\ CacheUnchanged
    \/ \E t \in Tasks, id \in RecorderIds :
          NextTask(t) /\ Known(id) /\ CallStatus(t, id) /\ CacheUnchanged
    \/ \E t \in Tasks, o \in StreamOutcomes : StartStreamReturns(t, o) /\ CacheUnchanged
    \/ \E t \in Tasks, o \in CallOutcomes : StartPipelineReturns(t, o) /\ CacheUnchanged
    \/ \E t \in Tasks, o \in CallOutcomes : StartIntegratorReturns(t, o) /\ CacheUnchanged
    \/ \E t \in Tasks, o \in CallOutcomes : StopPipelineReturns(t, o) /\ CacheUnchanged
    \/ \E t \in Tasks, o \in CallOutcomes : StopStreamReturns(t, o) /\ CacheUnchanged
    \/ \E t \in Tasks, o \in CallOutcomes : StatusReadReturns(t, o) /\ CacheUnchanged

SpecConc == InitCache /\ [][NextConc]_vars

(***************************************************************************)
(* The simple agent: main() creates and starts one session, registers two  *)
(* queries and starts the first; the first query's callback chains to the  *)
(* second, whose callback shuts everything down.  ContextQuery is the      *)
(* query engine: a query that is started runs a loop of ticks, each tick   *)
(* evaluates the prompt and then runs the callback to its end; the next    *)
(* tick is scheduled after that, if the query is still active.             *)
(***************************************************************************)

\* QueryStop as it would be if stop killed the loop where it is, inside a tick
\* or not.
QueryStop_KillsLoop(qs, q) ==
    [qs EXCEPT ![q].active = FALSE, ![q].loop = "none"]

\* ContextQuery.stop(q): the query is inactive and a loop that waits for its
\* next tick is cancelled; a loop inside a tick ends when its callback returns.
QueryStop(qs, q) ==
    [qs EXCEPT ![q].active = FALSE,
               ![q].loop = IF @ = "waiting" THEN "none" ELSE @]

\* ContextQuery.start(q): the query is active and its loop waits for the first tick.
QueryStart(qs, q) ==
    [qs EXCEPT ![q].active = TRUE,
               ![q].loop = IF @ = "none" THEN "waiting" ELSE @,
               ![q].starts = @ + 1]

\* ContextQuery.shutdown(): every registered query is stopped.
QueryShutdown(qs) ==
    [q \in QueryIds |-> IF qs[q].defined THEN QueryStop(qs, q)[q] ELSE qs[q]]

\* The loop of q after a tick: the next tick is scheduled if q is still active.
TickEnds(qs, q) ==
    [qs EXCEPT ![q].loop = IF qs[q].active THEN "waiting" ELSE "none", ![q].at = 0]

\* IdeCallbackCalls as it would be if the callback started the second query
\* without stopping its own.
IdeCallbackCalls_NoStop ==
    <<[op |-> "start", q |-> "directory_query_id"]>>

\* Lines 87-92: the calls on_ide_detected awaits when the answer is YES with a
\* confidence above 0.8, in order.
IdeCallbackCalls ==
    <<[op |-> "stop", q |-> "ide_query_id"],
      [op |-> "start", q |-> "directory_query_id"]>>

\* Lines 25-43: post_init registers the session and awaits recorder.start.
PostInit ==
    /\ agent.main \in {"post_init", "add_recorder"}
    /\ IF agent.main = "post_init"
       THEN /\ AddRecorder(1)
            /\ agent' = [agent EXCEPT !.main = "add_recorder"]
       ELSE /\ CallStart(1, task[1].id)
            /\ agent' = [agent EXCEPT !.main = "recorder_start"]
    /\ UNCHANGED query

\* Lines 117-123: graceful_shutdown begins: it returns at once if it ran
\* before, otherwise it sets _cleanup_done and awaits query.shutdown().
CleanupBegins(a, by) ==
    IF a.cleanup_done THEN a
    ELSE [a EXCEPT !.cleanup_done = TRUE, !.cleanup = "query_shutdown", !.by = by]

\* Lines 43-73 and 144-165: recorder.start has returned.  On True the two
\* queries are registered, the first is started and main sleeps; on False
\* post_init raises and main's finally clause calls graceful_shutdown.
RecorderStarted ==
    /\ agent.main = "recorder_start"
    /\ task[1].op = "start" /\ task[1].pc = "done"
    /\ IF task[1].ret = "true"
       THEN /\ query' = QueryStart([q \in QueryIds |-> [IdleQuery EXCEPT !.defined = TRUE]],
                                   "ide_query_id")
            /\ agent' = [agent EXCEPT !.main = "sleep"]
       ELSE /\ agent' = CleanupBegins([agent EXCEPT !.main = "cleanup"], "main")
            /\ UNCHANGED query
    /\ UNCHANGED registryVars

\* The program runs until main() has returned.
Running == agent.main # "done"

\* The interval of q has elapsed: the loop issues the prompt.
TickDue(q) ==
    /\ Running
    /\ query[q].loop = "waiting"
    /\ query[q].fired < MaxTicks
    /\ query' = [query EXCEPT ![q].loop = "query", ![q].fired = @ + 1]
    /\ UNCHANGED <<agent, registryVars>>

\* Lines 76-94: the result of the first query arrives and on_ide_detected runs
\* to its first await (positive: the answer is YES with a confidence above 0.8)
\* or to its end.
IdeResult(positive) ==
    /\ Running
    /\ query["ide_query_id"].loop = "query"
    /\ query' = IF positive
                THEN [query EXCEPT !["ide_query_id"].loop = "callback",
                                   !["ide_query_id"].at = 1]
                ELSE TickEnds(query, "ide_query_id")
    /\ UNCHANGED <<agent, registryVars>>

\* The effect of a call of the callback on the queries.
Apply(call, qs) ==
    IF call.op = "stop" THEN QueryStop(qs, call.q) ELSE QueryStart(qs, call.q)

\* Lines 88-94: the call on_ide_detected awaits returns; the callback issues
\* its next call or returns, which ends the tick.
IdeCallReturns ==
    LET at == query["ide_query_id"].at
        qs == Apply(IdeCallbackCalls[at], query)
    IN /\ Running
       /\ query["ide_query_id"].loop = "callback"
       /\ IF at < Len(IdeCallbackCalls)
          THEN /\ query' = [qs EXCEPT !["ide_query_id"].at = at + 1]
               /\ UNCHANGED agent
          ELSE /\ query' = TickEnds(qs, "ide_query_id")
               /\ agent' = [agent EXCEPT !.chained = TRUE,
                                         !.fired_at_chain = query["ide_query_id"].fired]
       /\ UNCHANGED registryVars

\* Lines 96-115: the result of the second query arrives; with a confidence
\* above 0.6 on_directory_detected awaits graceful_shutdown.
DirectoryResult(positive) ==
    /\ Running
    /\ query["directory_query_id"].loop = "query"
    /\ IF positive /\ ~agent.cleanup_done
       THEN /\ agent' = CleanupBegins(agent, "callback")
            /\ query' = [query EXCEPT !["directory_query_id"].loop = "callback"]
       ELSE /\ query' = TickEnds(query, "directory_query_id")
            /\ UNCHANGED agent
    /\ UNCHANGED registryVars

\* Lines 144-165: main's sleep ends and its finally clause calls
\* graceful_shutdown; if that ran before, main returns.
SleepEnds ==
    /\ agent.main = "sleep"
    /\ agent' = IF agent.cleanup_done
                THEN [agent EXCEPT !.main = "done"]
                ELSE CleanupBegins([agent EXCEPT !.main = "cleanup"], "main")
    /\ UNCHANGED <<query, registryVars>>

\* Lines 123-124: query.shutdown() returns and recorder.shutdown() is awaited.
QueryShutdownReturns ==
    /\ Running
    /\ agent.cleanup = "query_shutdown"
    /\ query' = QueryShutdown(query)
    /\ agent' = [agent EXCEPT !.cleanup = "recorder_shutdown"]
    /\ CallShutdown(1)

\* Line 124: recorder.shutdown() has returned, and with it graceful_shutdown:
\* into the callback that awaited it, whose tick ends, or into main.
CleanupReturns ==
    /\ Running
    /\ agent.cleanup = "recorder_shutdown"
    /\ task[1].op = "shutdown" /\ task[1].pc = "done"
    /\ IF agent.by = "callback"
       THEN /\ query' = TickEnds(query, "directory_query_id")
            /\ agent' = [agent EXCEPT !.cleanup = "done"]
       ELSE /\ agent' = [agent EXCEPT !.cleanup = "done", !.main = "done"]
            /\ UNCHANGED query
    /\ UNCHANGED registryVars

NextQuery ==
    \/ PostInit /\ SinkUnchanged
    \/ RecorderStarted /\ SinkUnchanged
    \/ \E q \in QueryIds : TickDue(q) /\ SinkUnchanged
    \/ \E positive \in BOOLEAN : IdeResult(positive) /\ SinkUnchanged
    \/ IdeCallReturns /\ SinkUnchanged
    \/ \E positive \in BOOLEAN : DirectoryResult(positive) /\ SinkUnchanged
    \/ SleepEnds /\ SinkUnchanged
    \/ QueryShutdownReturns /\ SinkUnchanged
    \/ CleanupReturns /\ SinkUnchanged
    \/ \E o \in StreamOutcomes : Running /\ StartStreamReturns(1, o) /\ CacheUnchanged
    \/ \E o \in CallOutcomes : Running /\ StartPipelineReturns(1, o) /\ CacheUnchanged
    \/ \E o \in CallOutcomes : Running /\ StartIntegratorReturns(1, o) /\ CacheUnchanged
    \/ \E o \in CallOutcomes : Running /\ StopPipelineReturns(1, o) /\ CacheUnchanged
    \/ \E o \in CallOutcomes : Running /\ StopStreamReturns(1, o) /\ CacheUnchanged

\* SimpleAgent builds its ContextRecorder without a cache_file (line 18).
InitQuery == Init /\ cache_file = LibraryPath

SpecQuery == InitQuery /\ [][NextQuery]_vars

(***************************************************************************)
(* Properties of start, stop and shutdown                                  *)
(***************************************************************************)

\* A call of op has returned on task t.
Returned(t, op) == task[t].op = op /\ task[t].pc = "done"

\* The records that were recording when the call on task t began.
ActiveAtCall(t) ==
    {id \in DOMAIN task[t].before.recs : task[t].before.recs[id].is_recording}

AllStages == {"capture", "analysis", "integrator"}

\* C1: whenever start(S) returns True, S's is_recording flag is set and each of
\* the three stage starts (capture, analysis, integrator) succeeded during that
\* same call.
C1_StartTrueMeansAllStarted ==
    \A t \in Tasks :
        (Returned(t, "start") /\ task[t].ret = "true")
        => /\ recorders[task[t].id].is_recording
           /\ task[t].started = AllStages

\* A start has returned True on a session that an earlier start had failed on.
C1_Witness ==
    \E t \in Tasks :
        /\ Returned(t, "start") /\ task[t].ret = "true"
        /\ ~task[t].before.recs[task[t].id].is_recording
        /\ task[t].before.video[task[t].id]

\* C2: when start(S) of a known session that was not recording returns False
\* after the capture start had succeeded (the analysis or the integrator start
\* failed), no stage of S is left started.
C2_FailedStartLeavesNothingStarted ==
    \A t \in Tasks :
        (/\ Returned(t, "start") /\ task[t].ret = "false"
         /\ task[t].id \in DOMAIN task[t].before.recs
         /\ ~task[t].before.recs[task[t].id].is_recording
         /\ ~task[t].before.video[task[t].id]
         /\ "capture" \in task[t].started)
        => /\ ~video_stream[task[t].id]
           /\ ~transcription_pipeline[task[t].id]

\* C3: whenever start(S) of a known session returns False, whatever state S was
\* in before, S's is_recording flag is False and get_status(S) reports not
\* recording.
C3_FailedStartLeavesInactive ==
    \A t \in Tasks :
        (/\ Returned(t, "start") /\ task[t].ret = "false"
         /\ task[t].id \in DOMAIN task[t].before.recs)
        => /\ ~recorders[task[t].id].is_recording
           /\ StatusNotRecording(task[t].id)

\* C4: in every reachable state active_recorders equals the number of records
\* whose is_recording flag is set.
C4_CountEqualsActiveRecords ==
    active_recorders = Cardinality(ActiveRecords)

\* C5: in every reachable state the registry's is_recording flag is set if and
\* only if active_recorders is greater than 0.
C5_FlagIffCountPositive ==
    is_recording <=> (active_recorders > 0)

\* C6: whenever shutdown() returns, active_recorders is 0 and the registry's
\* is_recording flag is False, also when stops failed during the shutdown.
C6_ShutdownBaseline ==
    \A t \in Tasks :
        Returned(t, "shutdown") => (active_recorders = 0 /\ ~is_recording)

\* A shutdown has returned during which the stop of a session failed, begun
\* with a count above the number of recording records.
C6_Witness ==
    \E t \in Tasks :
        /\ Returned(t, "shutdown")
        /\ task[t].failed # {}
        /\ task[t].before.count > Cardinality(ActiveAtCall(t))

C8_StopTwiceSameAsOnce ==
    \A t \in Tasks :
        (Returned(t, "stop") /\ task[t].repeat) => Observable = task[t].before

\* C9: stop(id) of an id that is not in the registry returns normally and
\* leaves the registry, the count, the flag and the stages unchanged.
C9_StopUnknownIsNoOp ==
    \A t \in Tasks :
        (Returned(t, "stop") /\ task[t].id \notin DOMAIN task[t].before.recs)
        => (task[t].ret = "none" /\ Observable = task[t].before)

\* C10: start(id) of an id that is not in the registry returns False, creates
\* no record, starts no stage and leaves the records, the count and the flag
\* unchanged.
C10_StartUnknownNoChange ==
    \A t \in Tasks :
        (Returned(t, "start") /\ task[t].id \notin DOMAIN task[t].before.recs)
        => /\ task[t].ret = "false"
           /\ task[t].started = {}
           /\ Observable = task[t].before

\* A start of an unknown id has returned while a session was recording.
C10_Witness ==
    \E t \in Tasks :
        /\ Returned(t, "start")
        /\ task[t].id \notin DOMAIN task[t].before.recs
        /\ ActiveAtCall(t) # {}

\* C11: a stage stop that raises inside stop(S) is never propagated: stop(S) of
\* a known session returns normally, and so does a shutdown() whose stops
\* failed.
C11_StopFailureNotPropagated ==
    \A t \in Tasks :
        /\ (Returned(t, "stop") /\ task[t].id \in DOMAIN task[t].before.recs)
           => task[t].ret = "none"
        /\ Returned(t, "shutdown") => task[t].ret = "none"

\* A stop of a known session has returned after one of its stage stops raised.
C11_Witness ==
    \E t \in Tasks :
        /\ Returned(t, "stop")
        /\ task[t].id \in task[t].failed

(***************************************************************************)
(* Properties of the cache sink and of the tools                           *)
(***************************************************************************)

\* No _on_context_update coroutine is in flight.
HandlersDone == \A h \in Handlers : handler[h].pc \in {"idle", "done"}

\* C12: a failure inside _on_context_update (reading the context, serializing
\* it or writing the file) never changes the recording state: a step of a
\* handler leaves every record's flag, the count and the registry's flag as
\* they were, and the handler returns normally to the integrator.
C12_CacheFailureLeavesRecording ==
    /\ [](\A h \in Handlers : handler[h].pc = "done" => handler[h].ret = "none")
    /\ [][handler' # handler
            => UNCHANGED <<recorders, is_recording, active_recorders>>]_vars

\* A handler has caught an exception while a session was recording.
C12_Witness ==
    \E h \in Handlers :
        /\ handler[h].pc = "done" /\ handler[h].caught
        /\ is_recording /\ ActiveRecords # {}

\* C13: once every notification issued so far has been handled successfully,
\* the cache file holds the text of the last pushed context, also when the
\* handlers of successive notifications overlap.
C13_StoreHoldsLastPush ==
    (integrator_context.ver > 0 /\ handled = integrator_context.ver /\ HandlersDone)
    => files[cache_file] = Serialize(integrator_context)

\* C14: a tool that finds the cache file missing or empty answers with the
\* "no context" sentinel.
C14_MissingOrEmptyReadsSentinel ==
    (tool.op \in ReadTools /\ tool.saw \in {Missing, EmptyText})
    => tool.result = Sentinel

\* C15: once the cache file exists, every read of it returns a complete
\* non-empty snapshot.
C15_ReadsSeeCompleteSnapshot ==
    (tool.op \in ReadTools /\ tool.saw # Missing)
    => tool.result.enc \in {"text", "json", "str"}

\* C16: get_status(id) never raises and changes nothing: for an unknown, a
\* stopped or a recording id, with or without a failing collaborator read, it
\* returns a payload and leaves the records, the count and the flag as they
\* were; the error payload carries the registry's current is_recording flag.
C16_StatusReadOnly ==
    \A t \in Tasks :
        Returned(t, "get_status")
        => /\ task[t].ret \in {"not_found", "not_recording", "status", "error"}
           /\ recorders = task[t].before.recs
           /\ active_recorders = task[t].before.count
           /\ is_recording = task[t].before.flag
           /\ task[t].ret = "error" => task[t].payload = is_recording

\* get_status has returned the error payload for a recording session while
\* the registry's flag was False.
C16_Witness ==
    \E t \in Tasks :
        /\ Returned(t, "get_status") /\ task[t].ret = "error"
        /\ recorders[task[t].id].is_recording
        /\ ~is_recording

\* C18: add_recorder stores a new record under a fresh id with is_recording
\* False and starts nothing: when it has returned neither stage of the new
\* record is started, and the integrator, the count, the flag, the earlier
\* records and their stages are as they were before the call.
C18_AddRecorderStartsNothing ==
    \A t \in Tasks :
        Returned(t, "add_recorder")
        => LET id == task[t].id
               b == task[t].before
           IN /\ id \notin DOMAIN b.recs
              /\ DOMAIN recorders = DOMAIN b.recs \cup {id}
              /\ recorders[id].is_recording = FALSE
              /\ ~video_stream[id] /\ ~transcription_pipeline[id]
              /\ integrator_started = b.integrator
              /\ active_recorders = b.count
              /\ is_recording = b.flag
              /\ \A i \in DOMAIN b.recs :
                    /\ recorders[i] = b.recs[i]
                    /\ video_stream[i] = b.video[i]
                    /\ transcription_pipeline[i] = b.pipeline[i]

\* add_recorder has returned while another session was recording.
C18_Witness ==
    \E t \in Tasks :
        /\ Returned(t, "add_recorder")
        /\ ActiveAtCall(t) # {}
        /\ task[t].before.flag /\ task[t].before.integrator

\* The stage stops a stop that met no failure issues, in order.
ReverseOfStart == <<"stop_pipeline", "stop_stream">>

\* C20: stop on a recording session stops the stages in the reverse of start's
\* order: the analysis stop (stop_pipeline) is issued first and the capture stop
\* (stop_stream) is issued only once it has returned; no call stops the
\* integrator.  start issues capture, analysis, integrator in that order.
C20_StopReversesStartOrder ==
    \A t \in Tasks :
        /\ task[t].pc = "stop_pipeline" => task[t].issued = SubSeq(ReverseOfStart, 1, 1)
        /\ task[t].pc = "stop_stream"
           => /\ task[t].issued = ReverseOfStart
              /\ ~transcription_pipeline[task[t].id]
        /\ (Returned(t, "stop") /\ task[t].id \in ActiveAtCall(t)
                /\ task[t].id \notin task[t].failed)
           => /\ task[t].issued = ReverseOfStart
              /\ integrator_started = task[t].before.integrator
        /\ (Returned(t, "start") /\ task[t].ret = "true")
           => task[t].issued = <<"start_stream", "start_pipeline", "start_integrator">>

\* stop has returned without a failure on a session that was recording, with
\* the integrator started before and after.
C20_Witness ==
    \E t \in Tasks :
        /\ Returned(t, "stop") /\ task[t].id \in ActiveAtCall(t)
        /\ task[t].id \notin task[t].failed
        /\ task[t].before.pipeline[task[t].id] /\ task[t].before.video[task[t].id]
        /\ ~video_stream[task[t].id] /\ ~transcription_pipeline[task[t].id]
        /\ integrator_started

\* A start of a session that was not recording is suspended in a stage call.
StartSuspended(t) ==
    /\ task[t].op = "start"
    /\ task[t].pc \in {"start_stream", "start_pipeline", "start_integrator"}
    /\ ~task[t].before.recs[task[t].id].is_recording

\* The step is the last of a start of id: the integrator start, the third stage
\* call, has returned with all three stages started, and start returns True.
StartCommits(id) ==
    \E t \in Tasks :
        /\ task[t].op = "start" /\ task[t].id = id
        /\ task[t].pc = "start_integrator"
        /\ task'[t].pc = "done" /\ task'[t].ret = "true"
        /\ task'[t].started = AllStages

\* C19: while a start of a session is suspended in one of its three stage
\* calls, the record is not marked recording, whatever other task runs; the
\* record's is_recording becomes True only in the step that ends the third
\* stage call successfully, and in that same step the count is incremented and
\* the flag set; every other step of a start leaves the records, the count and
\* the flag as they are.
C19_StartMarksRecordingAtomically ==
    /\ [](\A t \in Tasks : StartSuspended(t) => ~recorders[task[t].id].is_recording)
    /\ [][/\ \A id \in RecorderIds :
               /\ (/\ id \in DOMAIN recorders'
                   /\ recorders'[id].is_recording
                   /\ ~(id \in DOMAIN recorders /\ recorders[id].is_recording))
                  => StartCommits(id)
               /\ StartCommits(id)
                  => /\ recorders'[id].is_recording
                     /\ active_recorders' = active_recorders + 1
                     /\ is_recording'
           /\ \A t \in Tasks :
               (/\ task[t].op = "start" /\ ~Free(t) /\ task'[t] # task[t]
                /\ ~(task'[t].op = "start" /\ task'[t].ret = "true"))
               => UNCHANGED <<recorders, active_recorders, is_recording>>]_vars

\* While a start is suspended in its integrator call with capture and analysis
\* started, a status read of the same session, called after the capture of this
\* start had begun, has returned "not recording", and another session is
\* recording.
C19_Witness ==
    \E t, u \in Tasks :
        /\ StartSuspended(t) /\ task[t].pc = "start_integrator"
        /\ video_stream[task[t].id] /\ transcription_pipeline[task[t].id]
        /\ Returned(u, "get_status") /\ task[u].id = task[t].id
        /\ task[u].ret = "not_recording"
        /\ task[u].before.video[task[t].id] /\ ~task[t].before.video[task[t].id]
        /\ ActiveRecords # {}

\* C17: when the callback of the first query, running inside one of its ticks,
\* has called stop on its own query and then start on the second and returned,
\* the first query is inactive, its loop is gone and it fires no further tick;
\* until a shutdown begins the second query is active with its loop running;
\* the second query is never started twice.
C17_ChainingSwitchesLoops ==
    /\ query["directory_query_id"].starts <= 1
    /\ agent.chained
       => /\ ~query["ide_query_id"].active
          /\ query["ide_query_id"].loop = "none"
          /\ query["ide_query_id"].fired = agent.fired_at_chain
    /\ (agent.chained /\ ~agent.cleanup_done)
       => /\ query["directory_query_id"].active
          /\ query["directory_query_id"].loop # "none"

\* The first query chained at its second tick or later, no shutdown has begun,
\* and the second query has fired twice since.
C17_Witness ==
    /\ agent.chained /\ ~agent.cleanup_done
    /\ agent.fired_at_chain >= 2
    /\ query["directory_query_id"].fired >= 2
    /\ query["directory_query_id"].loop = "waiting"

\* The callback of the second query has called graceful_shutdown.
ShutdownFromCallback == agent.by = "callback"

\* C21: a stop or a shutdown of the queries issued from inside a query's own
\* callback does not end that callback: while the statements after the call are
\* still to run (the start of the next query after stop, recorder.shutdown()
\* after query.shutdown()) the query's loop is inside its tick, and the loop is
\* gone only once the callback has run them and returned.
C21_CallbackOutlivesItsStop ==
    /\ (ShutdownFromCallback /\ agent.cleanup = "recorder_shutdown")
       => /\ ~query["directory_query_id"].active
          /\ query["directory_query_id"].loop = "callback"
    /\ (ShutdownFromCallback /\ query["directory_query_id"].loop = "none")
       => /\ agent.cleanup = "done"
          /\ task[1].op = "shutdown" /\ task[1].pc = "done"
    /\ (query["ide_query_id"].at = 2 /\ ~query["ide_query_id"].active)
       => query["ide_query_id"].loop = "callback"

\* graceful_shutdown, called from the callback of the second query, has
\* stopped the queries and the recording session and returned; the loop of the
\* second query has ended after that.
C21_Witness ==
    /\ ShutdownFromCallback /\ agent.cleanup = "done"
    /\ query["directory_query_id"].loop = "none"
    /\ task[1].op = "shutdown" /\ task[1].pc = "done"
    /\ task[1].before.recs[1].is_recording /\ ~recorders[1].is_recording

\* C22: on every day the store the tools of the MCP servers read is the store
\* the cache sink of a recorder run on that day writes: what the tools would
\* answer from their file is what they would answer from the sink's file.
C22_ToolsReadTheSinkStore ==
    ReadCache(ServerPath) = ReadCache(cache_file)

\* C23: the active count is never negative, whatever sequence of add_recorder,
\* start, stop and shutdown calls is made and whichever of their stage calls
\* fail.
C23_CountNeverNegative == active_recorders >= 0

\* A stop of a recording session has returned after one of its stage stops
\* failed.
StopFailed(t) ==
    /\ Returned(t, "stop")
    /\ task[t].id \in ActiveAtCall(t)
    /\ task[t].id \in task[t].failed

\* C24: when a stage stop fails inside stop of a recording session, the records,
\* the count and the flag are left as they were; if it was the analysis stop
\* (stop_pipeline) that failed the capture stop is not issued and the capture
\* is left as it was; the next stop of that session begins the stop sequence
\* again with the analysis stop.
C24_FailedStopChangesNothing ==
    /\ [](\A t \in Tasks :
            StopFailed(t)
            => /\ recorders = task[t].before.recs
               /\ recorders[task[t].id].is_recording
               /\ active_recorders = task[t].before.count
               /\ is_recording = task[t].before.flag
               /\ task[t].issued \in {<<"stop_pipeline">>, <<"stop_pipeline", "stop_stream">>}
               /\ task[t].issued = <<"stop_pipeline">>
                  => /\ video_stream = task[t].before.video
                     /\ transcription_pipeline = task[t].before.pipeline)
    /\ [][\A t \in Tasks :
            (/\ StopFailed(t)
             /\ task'[t] # task[t]
             /\ task'[t].op = "stop" /\ task'[t].id = task[t].id)
            => /\ task'[t].pc = "stop_pipeline"
               /\ task'[t].issued = <<"stop_pipeline">>]_vars

\* A stop whose analysis stop failed has returned: the capture and the
\* analysis are still started and the session is still counted.
C24_Witness ==
    \E t \in Tasks :
        /\ StopFailed(t)
        /\ task[t].issued = <<"stop_pipeline">>
        /\ video_stream[task[t].id] /\ transcription_pipeline[task[t].id]
        /\ active_recorders > 0

\* Two starts of distinct sessions that were not recording have both returned
\* True, each called before the other had marked its session recording.
BothStarted(t, u) ==
    /\ t # u
    /\ Returned(t, "start") /\ task[t].ret = "true"
    /\ Returned(u, "start") /\ task[u].ret = "true"
    /\ task[t].id # task[u].id
    /\ ActiveAtCall(t) = ActiveAtCall(u)
    /\ task[t].id \notin ActiveAtCall(t) /\ task[u].id \notin ActiveAtCall(t)

\* The step ends a start on task u with True.
StartReturnsTrue(u) ==
    /\ task[u].op = "start" /\ task[u].pc = "start_integrator"
    /\ task'[u].pc = "done" /\ task'[u].ret = "true"

\* C25: when the starts of two distinct sessions that are not recording are
\* interleaved at their awaits and both succeed, no update is lost.  At the step
\* that ends the second of them (the other session, a, was marked recording
\* while this start was suspended) both sessions are recording, the flag is set
\* and, the other sessions being as they were, the count is 2 more than it was
\* when the start was called.
C25_InterleavedStartsBothCount ==
    [][\A u \in Tasks, a \in RecorderIds :
        (/\ StartReturnsTrue(u)
         /\ a # task[u].id
         /\ a \in ActiveRecords
         /\ a \notin ActiveAtCall(u)
         /\ task[u].id \notin ActiveAtCall(u))
        => /\ recorders'[a].is_recording
           /\ recorders'[task[u].id].is_recording
           /\ is_recording'
           /\ ActiveRecords = ActiveAtCall(u) \cup {a}
              => active_recorders' = task[u].before.count + 2]_vars

\* Both starts have returned True, each called while the other was suspended
\* with its capture not yet started, and the count went from 0 to 2.
C25_Witness ==
    \E t, u \in Tasks :
        /\ BothStarted(t, u)
        /\ task[t].before.count = 0 /\ task[u].before.count = 0
        /\ ~task[t].before.video[task[u].id]
        /\ ~task[u].before.video[task[t].id]
        /\ active_recorders = 2

====
